---- MODULE Spec2Model ----
(***************************************************************************)
(* Model of the text-to-viseme alignment pipeline: tts_pipeline.py (the    *)
(* phonemizer, the viseme mapper, the timeline loop and the alignment      *)
(* writer) and llm_tts_pipeline.py (the language-model front end that      *)
(* rewrites the script file and runs tts_pipeline.py as a subprocess).     *)
(*                                                                         *)
(* A Python str is a sequence of one-character strings, so that upper(),   *)
(* strip(), split(), isalpha() and p[:-1] are computed character by        *)
(* character; "" is the empty sequence.  A time in seconds is an exact     *)
(* fraction <<numerator, denominator>> in lowest terms: the rounding of    *)
(* Python floats is left out (0 / N, N / N and x * 1.0 are exact in floats *)
(* as well).                                                               *)
(***************************************************************************)
EXTENDS Integers, Sequences, FiniteSets, TLC

----------------------------------------------------------------------------
(* Bounds of the model.                                                    *)

\* longest enumerated utterance, in characters
MaxTextLen == 2
\* longest enumerated audio clip, in half seconds
MaxHalfSeconds == 2
\* longest phoneme sequence handed to the viseme mapper on its own
MaxPhones == 2

----------------------------------------------------------------------------
(* Characters and str methods.                                             *)
(*                                                                         *)
(* A character is a one-character string; a character that has no TLA+     *)
(* string form is named by its code point, "U+00E9".  The tables hold      *)
(* ASCII and, of the rest of Unicode, every whitespace character and a     *)
(* sample with one character of each behaviour of the str methods used:    *)
(* letters that upper() changes, lengthens or leaves alone, letters with   *)
(* no case, and digits outside 0-9.                                        *)

LowerLetters ==
    <<"a","b","c","d","e","f","g","h","i","j","k","l","m",
      "n","o","p","q","r","s","t","u","v","w","x","y","z">>

UpperLetters ==
    <<"A","B","C","D","E","F","G","H","I","J","K","L","M",
      "N","O","P","Q","R","S","T","U","V","W","X","Y","Z">>

\* the upper() of the non-ASCII letters it changes: e acute, sharp s, long
\* s, n preceded by apostrophe, j with caron, the title-case digraph Dz
\* with caron
OtherUpper ==
    ("U+00E9" :> <<"U+00C9">>)
    @@ ("U+00DF" :> <<"S","S">>)
    @@ ("U+017F" :> <<"S">>)
    @@ ("U+0149" :> <<"U+02BC","N">>)
    @@ ("U+01F0" :> <<"J","U+030C">>)
    @@ ("U+01C5" :> <<"U+01C4">>)

\* the non-ASCII letters upper() leaves alone: E acute, the digraph DZ with
\* caron, a CJK ideograph, the modifier letter apostrophe, the feminine
\* ordinal indicator
OtherLetters == {"U+00C9", "U+01C4", "U+4E2D", "U+02BC", "U+00AA"}

\* the characters str.isupper() takes for upper case, and those it takes
\* for lower or title case
UpperCased == {UpperLetters[k] : k \in 1..Len(UpperLetters)} \cup {"U+00C9", "U+01C4"}
LowerCased ==
    {LowerLetters[k] : k \in 1..Len(LowerLetters)}
    \cup {"U+00E9", "U+00DF", "U+017F", "U+0149", "U+01F0", "U+01C5", "U+00AA"}

\* the characters with str.isdigit(): 0-9, superscript two, Arabic-Indic three
Digits == {"0","1","2","3","4","5","6","7","8","9", "U+00B2", "U+0663"}

\* the characters with str.isspace(), which split() and strip() remove
Whitespace ==
    { "\t", "\n", "U+000B", "\f", "\r", "U+001C", "U+001D", "U+001E", "U+001F",
      " ", "U+0085", "U+00A0", "U+1680", "U+2000", "U+2001", "U+2002", "U+2003",
      "U+2004", "U+2005", "U+2006", "U+2007", "U+2008", "U+2009", "U+200A",
      "U+2028", "U+2029", "U+202F", "U+205F", "U+3000" }

Range(s) == { s[i] : i \in 1..Len(s) }

\* str.isalpha() of one character
isalpha(ch) ==
    ch \in Range(LowerLetters) \cup Range(UpperLetters)
           \cup DOMAIN OtherUpper \cup OtherLetters

\* str.isdigit() of one character
isdigit(ch) == ch \in Digits

\* str.upper() of one character, a str of one or two characters
UpperChar(ch) ==
    IF ch \in Range(LowerLetters)
    THEN <<UpperLetters[CHOOSE i \in 1..Len(LowerLetters) : LowerLetters[i] = ch]>>
    ELSE IF ch \in DOMAIN OtherUpper THEN OtherUpper[ch]
    ELSE <<ch>>

\* str.upper()
RECURSIVE upper(_)
upper(s) == IF s = <<>> THEN <<>> ELSE UpperChar(Head(s)) \o upper(Tail(s))

\* str.isupper(): at least one upper-case character and no lower-case or
\* title-case one
isupper(s) ==
    /\ \E i \in 1..Len(s) : s[i] \in UpperCased
    /\ \A i \in 1..Len(s) : s[i] \notin LowerCased

\* str.strip(): leading and trailing whitespace removed
RECURSIVE lstrip(_)
lstrip(s) ==
    IF s # <<>> /\ Head(s) \in Whitespace THEN lstrip(Tail(s)) ELSE s

RECURSIVE rstrip(_)
rstrip(s) ==
    IF s # <<>> /\ s[Len(s)] \in Whitespace
    THEN rstrip(SubSeq(s, 1, Len(s) - 1))
    ELSE s

strip(s) == rstrip(lstrip(s))

\* str.split(): the maximal runs of non-whitespace characters, in order
RECURSIVE SplitFrom(_, _, _)
SplitFrom(s, cur, acc) ==
    IF s = <<>>
    THEN IF cur = <<>> THEN acc ELSE Append(acc, cur)
    ELSE IF Head(s) \in Whitespace
         THEN SplitFrom(Tail(s), <<>>, IF cur = <<>> THEN acc ELSE Append(acc, cur))
         ELSE SplitFrom(Tail(s), Append(cur, Head(s)), acc)

split(s) == SplitFrom(s, <<>>, <<>>)

\* str.replace(old, new) for one-character old and new
replace(s, old, new) == [i \in 1..Len(s) |-> IF s[i] = old THEN new ELSE s[i]]

----------------------------------------------------------------------------
(* The viseme mapper.                                                      *)

SHAPES ==
    { <<"A","A">>, <<"C","H">>, <<"E","E">>, <<"I","H">>, <<"O","H">>,
      <<"O","U">>, <<"T","H">>, <<"d","d">>, <<"f","f">>, <<"k","k">>,
      <<"n","n">>, <<"p","p">>, <<"r","r">>, <<"s","s">> }

\* the "" that arpabet_to_shape returns for a symbol with no shape
NoShape == <<>>

\* pick(*candidates): the first candidate that is a shape, else ""
RECURSIVE pick(_)
pick(candidates) ==
    IF candidates = <<>> THEN NoShape
    ELSE IF Head(candidates) \in SHAPES THEN Head(candidates)
    ELSE pick(Tail(candidates))

\* the phoneme-class rules, tried in order; otherwise when a is in no class
class_rules(a, otherwise) ==
    IF a \in {<<"A","A">>, <<"A","E">>, <<"A","H">>} THEN pick(<< <<"A","A">> >>)
    ELSE IF a \in {<<"I","Y">>, <<"I","H">>, <<"E","Y">>, <<"I","X">>}
        THEN pick(<< <<"E","E">>, <<"I","H">> >>)
    ELSE IF a = <<"E","H">> THEN pick(<< <<"I","H">>, <<"E","E">> >>)
    ELSE IF a \in {<<"O","W">>, <<"A","O">>} THEN pick(<< <<"O","H">>, <<"O","U">> >>)
    ELSE IF a \in {<<"A","W">>, <<"A","Y">>, <<"O","Y">>, <<"U","H">>, <<"U","W">>}
        THEN pick(<< <<"O","U">>, <<"O","H">> >>)
    ELSE IF a \in {<<"P">>, <<"B">>, <<"M">>} THEN pick(<< <<"p","p">> >>)
    ELSE IF a \in {<<"F">>, <<"V">>} THEN pick(<< <<"f","f">> >>)
    ELSE IF a \in {<<"K">>, <<"G">>} THEN pick(<< <<"k","k">> >>)
    ELSE IF a \in {<<"N">>, <<"N","G">>} THEN pick(<< <<"n","n">> >>)
    ELSE IF a \in {<<"D">>, <<"T">>} THEN pick(<< <<"d","d">> >>)
    ELSE IF a \in {<<"R">>, <<"E","R">>} THEN pick(<< <<"r","r">> >>)
    ELSE IF a \in {<<"S">>, <<"Z">>, <<"S","H">>, <<"Z","H">>} THEN pick(<< <<"s","s">> >>)
    ELSE IF a \in {<<"C","H">>, <<"J","H">>} THEN pick(<< <<"C","H">> >>)
    ELSE IF a \in {<<"T","H">>, <<"D","H">>} THEN pick(<< <<"T","H">> >>)
    ELSE otherwise

\* a variant that returns the symbol itself when nothing matches
arpabet_to_shape_returns_symbol(arpa) ==
    LET a == upper(arpa) IN class_rules(a, a)

arpabet_to_shape(arpa) ==
    LET a == upper(arpa) IN
    class_rules(a, IF a \in SHAPES THEN a ELSE NoShape)

\* a variant without the filter on the mapped shape
phones_to_shapes_unfiltered(phones) ==
    [k \in 1..Len(phones) |-> arpabet_to_shape(phones[k])]

\* [s for p in phones if (s := arpabet_to_shape(p))]
phones_to_shapes(phones) ==
    SelectSeq([k \in 1..Len(phones) |-> arpabet_to_shape(phones[k])],
              LAMBDA s : s # NoShape)

----------------------------------------------------------------------------
(* Exact arithmetic on times.                                              *)

RECURSIVE GCD(_, _)
GCD(a, b) == IF b = 0 THEN a ELSE GCD(b, a % b)

\* the fraction n/d (n >= 0, d > 0) in lowest terms
Frac(n, d) == LET g == GCD(n, d) IN <<n \div g, d \div g>>

\* a / b of two ints (true division)
TrueDiv(a, b) == Frac(a, b)

\* x * y
Times(x, y) == Frac(x[1] * y[1], x[2] * y[2])

\* y - x, for x <= y
Minus(y, x) == Frac(y[1] * x[2] - x[1] * y[2], y[2] * x[2])

Less(x, y) == x[1] * y[2] < y[1] * x[2]

Zero == Frac(0, 1)

----------------------------------------------------------------------------
(* The phonemizer.                                                         *)

\* "".join(ch for ch in raw_word if ch.isalpha() or ch == "'").upper()
NormalizeWord(raw_word) ==
    upper(SelectSeq(raw_word, LAMBDA ch : isalpha(ch) \/ ch = "'"))

\* a variant that keeps the stress digit
strip_stress_kept(p) == p

\* if p and p[-1].isdigit(): p = p[:-1]
strip_stress(p) ==
    IF p # <<>> /\ isdigit(p[Len(p)]) THEN SubSeq(p, 1, Len(p) - 1) ELSE p

\* pron = cmu[word][0]; each phoneme of it without its stress digit
lexicon_phones(cmu, word) ==
    LET pron == cmu[word][1] IN [k \in 1..Len(pron) |-> strip_stress(pron[k])]

\* a variant that spells only the letters of the word
letter_fallback_letters_only(word) ==
    LET letters == SelectSeq(word, isalpha) IN
    [k \in 1..Len(letters) |-> upper(<<letters[k]>>)]

\* for ch in word: phones.append(ch.upper())
letter_fallback(word) == [k \in 1..Len(word) |-> upper(<<word[k]>>)]

\* what one word of the utterance appends to phones
word_phones(cmu, raw_word) ==
    LET word == NormalizeWord(raw_word) IN
    IF word = <<>> THEN <<>>
    ELSE IF word \in DOMAIN cmu THEN lexicon_phones(cmu, word)
    ELSE letter_fallback(word)

----------------------------------------------------------------------------
(* The timeline loop and the alignment record.                             *)

\* a variant whose intervals start one step late
Slot_starts_late(i, sh, N, duration) ==
    [shape |-> sh,
     start |-> Times(TrueDiv(i + 1, N), duration),
     end   |-> Times(TrueDiv(i + 1, N), duration)]

\* one pass of the loop body: {"shape": sh, "start": start, "end": end}
Slot(i, sh, N, duration) ==
    [shape |-> sh,
     start |-> Times(TrueDiv(i, N), duration),
     end   |-> Times(TrueDiv(i + 1, N), duration)]

\* the align dict built by main
BuildAlign(out_wav, slots, emotion) ==
    [audio    |-> replace(out_wav, "\\", "/"),
     phonemes |-> slots,
     emotion  |-> emotion]

----------------------------------------------------------------------------
(* The language-model front end.                                           *)

ALLOWED_EMOTIONS ==
    <<"neutral", "happy", "sad", "angry", "excited", "energetic", "gloomy">>

\* if emotion not in ALLOWED_EMOTIONS: emotion = "neutral"
checked_emotion(emotion) ==
    IF emotion \in Range(ALLOWED_EMOTIONS) THEN emotion ELSE "neutral"

\* subprocess.run(cmd, check=True) raises CalledProcessError on this
check_fails(returncode) == returncode # 0

----------------------------------------------------------------------------
(* Inputs: utterances, pronunciation dictionaries, emotions, audio.        *)

TextAlphabet == {"d", "H", "'", " ", "\f", "1"}

\* every utterance of at most MaxTextLen characters over TextAlphabet
BoundedTexts == UNION { [1..n -> TextAlphabet] : n \in 0..MaxTextLen }

HelloWorld == <<"H","e","l","l","o"," ","w","o","r","l","d">>

ScenarioTexts ==
    { HelloWorld,
      <<"Z","z","y","z","x">>,
      <<"d","o","n","'","t">>,
      <<" ","H","e","l","l","o",","," ","h","h"," ","w","o","r","l","d","!","\n">>,
      <<"\n"," ","\t">>,
      <<"U+000B","U+00A0","\r">>,
      <<"a","\r","b">>,
      <<"a","\r","\n","b">>,
      <<"c","a","f","U+00E9">>,
      <<"U+00DF","U+0149"," ","U+4E2D">>,
      <<"U+01F0","U+00B2">> }

Texts == BoundedTexts \cup ScenarioTexts

\* a dictionary keyed by upper-case words, with the CMU entries of these words
LexUpper ==
    (<<"H","E","L","L","O">> :>
        << << <<"H","H">>, <<"A","H","0">>, <<"L">>, <<"O","W","1">> >>,
           << <<"H","H">>, <<"E","H","0">>, <<"L">>, <<"O","W","1">> >> >>)
    @@ (<<"W","O","R","L","D">> :>
        << << <<"W">>, <<"E","R","1">>, <<"L">>, <<"D">> >> >>)
    @@ (<<"D","O","N","'","T">> :>
        << << <<"D">>, <<"O","W","1">>, <<"N">>, <<"T">> >> >>)
    @@ (<<"D">> :> << << <<"D">>, <<"I","Y","1">> >> >>)
    @@ (<<"H">> :> << << <<"E","Y","1">>, <<"C","H">> >> >>)

\* the same entries keyed by lower-case words
LexLower ==
    (<<"h","e","l","l","o">> :> LexUpper[<<"H","E","L","L","O">>])
    @@ (<<"w","o","r","l","d">> :> LexUpper[<<"W","O","R","L","D">>])
    @@ (<<"d","o","n","'","t">> :> LexUpper[<<"D","O","N","'","T">>])
    @@ (<<"d">> :> LexUpper[<<"D">>])
    @@ (<<"h">> :> LexUpper[<<"H">>])

Lexicons == {LexUpper, LexLower}

\* emotion strings a caller or the language model may hand over
EmotionInputs == {"neutral", "gloomy", "bogus"}

\* sample rates sf.read may report
SampleRates == {22050}

\* numbers of frames sf.read may return at sample rate sr
AudioLengths(sr) == {0, 1} \cup { k * (sr \div 2) : k \in 1..MaxHalfSeconds }

\* sys.argv[2] of tts_pipeline.py
OutWav == <<"o","u","t","\\","a",".","w","a","v">>

\* the content of an alignment file that does not exist
NoDoc == [audio |-> <<>>, phonemes |-> <<>>, emotion |-> ""]

----------------------------------------------------------------------------
(* State.                                                                  *)

VARIABLES
    entry,       \* the program the user ran: "llm" or "tts"
    llmArgc,     \* len(sys.argv) of llm_tts_pipeline.py
    ttsArgs,     \* [argc, emotion]: len(sys.argv) and sys.argv[4] of tts_pipeline.py
    cmudict,     \* the pronunciation dictionary cmudict.dict() holds
    corpus,      \* whether nltk has the cmudict corpus after nltk.download
    scriptFile,  \* [exists, text]: the script file
    wavFile,     \* "absent", "old" (of an earlier run), "raw", "pcm16" or "partial"
    jsonFile,    \* [state, doc]: state is "absent", "old", "written" or "partial"
    calls,       \* [synth, spawn]: calls of synthesize_tts / subprocess.run
    lpc,         \* where llm_tts_pipeline.py is
    lexit,       \* its exit code: 0, 1 for any other code, -1 while it runs
    reply,       \* [text, emotion] returned by get_reply_and_emotion
    tpc,         \* where tts_pipeline.py is
    texit,       \* its exit code: 0, 1 for any other code, -1 while it runs
    text,        \* main: text
    emotion,     \* main: emotion
    duration,    \* main: duration
    words,       \* text_to_arpabet: the raw words not yet visited
    phones,      \* text_to_arpabet: phones
    shapes,      \* main: shapes
    slots,       \* main: slots
    i            \* main: passes of the timeline loop made so far

inputs  == <<entry, llmArgc, cmudict>>
files   == <<scriptFile, wavFile, jsonFile>>
llmVars == <<lpc, lexit, reply>>
locals  == <<text, emotion, duration, words, phones, shapes, slots, i>>
vars    == <<inputs, corpus, ttsArgs, files, calls, llmVars, tpc, texit, locals>>

NoReply == [text |-> <<>>, emotion |-> ""]
NoArgs  == [argc |-> 0, emotion |-> ""]

\* an alignment file that was opened for writing and not written in full
PartialJson == [state |-> "partial", doc |-> NoDoc]

\* the state of the files, dictionary and locals before either program runs
Fresh ==
    /\ cmudict \in Lexicons
    /\ corpus = FALSE
    /\ \E old \in BOOLEAN :
          /\ wavFile = IF old THEN "old" ELSE "absent"
          /\ jsonFile = IF old
                THEN [state |-> "old",
                      doc |-> BuildAlign(OutWav, <<Slot(0, <<"A","A">>, 1, Zero)>>, "happy")]
                ELSE [state |-> "absent", doc |-> NoDoc]
    /\ calls = [synth |-> 0, spawn |-> 0]
    /\ reply = NoReply
    /\ texit = -1 /\ lexit = -1
    /\ text = <<>> /\ emotion = "" /\ duration = Zero
    /\ words = <<>> /\ phones = <<>> /\ shapes = <<>> /\ slots = <<>> /\ i = 0

\* the user runs tts_pipeline.py
InitTts ==
    /\ entry = "tts"
    /\ llmArgc = 0 /\ lpc = "idle"
    /\ ttsArgs \in [argc : {4, 5}, emotion : EmotionInputs]
    /\ scriptFile \in [exists : {TRUE}, text : Texts]
                      \cup {[exists |-> FALSE, text |-> <<>>]}
    /\ tpc = "import"
    /\ Fresh

\* the user (the viewer) runs llm_tts_pipeline.py
InitLlm ==
    /\ entry = "llm"
    /\ llmArgc \in {3, 4} /\ lpc = "import"
    /\ ttsArgs = NoArgs
    /\ scriptFile \in [exists : {TRUE}, text : ScenarioTexts \cup {<<>>}]
                      \cup {[exists |-> FALSE, text |-> <<>>]}
    /\ tpc = "idle"
    /\ Fresh

Init == InitTts \/ InitLlm

----------------------------------------------------------------------------
(* tts_pipeline.py.                                                        *)

\* an uncaught exception or sys.exit(1)
TtsFail ==
    /\ tpc' = "exit" /\ texit' = 1

\* the module body: the imports, which may raise, and
\* nltk.download('cmudict'), which leaves the corpus installed or (no
\* network, no earlier copy) missing without raising
TtsImport ==
    /\ tpc = "import"
    /\ \/ /\ corpus' \in BOOLEAN
          /\ tpc' = "start" /\ UNCHANGED texit
       \/ /\ TtsFail
          /\ UNCHANGED corpus
    /\ UNCHANGED <<inputs, ttsArgs, files, calls, llmVars, locals>>

\* the newline translation of a file opened for reading in text mode:
\* "\r\n" and a lone "\r" are read as "\n"
RECURSIVE universal_newlines(_)
universal_newlines(s) ==
    IF s = <<>> THEN <<>>
    ELSE IF Head(s) = "\r"
    THEN IF Len(s) >= 2 /\ s[2] = "\n"
         THEN <<"\n">> \o universal_newlines(Tail(Tail(s)))
         ELSE <<"\n">> \o universal_newlines(Tail(s))
    ELSE <<Head(s)>> \o universal_newlines(Tail(s))

\* script_path.read_text(encoding="utf-8")
read_text(file) == universal_newlines(file.text)

\* a variant that reads the script without trimming it
read_script_untrimmed(file) == read_text(file)

\* text = script_path.read_text(encoding="utf-8").strip()
read_script(file) == strip(read_text(file))

\* main: the argument check, the read of the script (which raises when the
\* file is missing or cannot be read) and the emptiness check
TtsReadScript ==
    /\ tpc = "start"
    /\ \/ /\ ttsArgs.argc # 5 \/ ~scriptFile.exists \/ read_script(scriptFile) = <<>>
          /\ TtsFail /\ UNCHANGED <<text, emotion>>
       \/ /\ ttsArgs.argc = 5 /\ scriptFile.exists
          /\ TtsFail /\ UNCHANGED <<text, emotion>>
       \/ /\ ttsArgs.argc = 5 /\ scriptFile.exists /\ read_script(scriptFile) # <<>>
          /\ text' = read_script(scriptFile)
          /\ emotion' = ttsArgs.emotion
          /\ tpc' = "synth" /\ UNCHANGED texit
    /\ UNCHANGED <<inputs, corpus, ttsArgs, files, calls, llmVars,
                   duration, words, phones, shapes, slots, i>>

\* print(...), which raises when stdout cannot be written, then
\* synthesize_tts(text, out_wav, emotion=emotion): the engine writes the
\* audio file, or returns without having written it, or fails, with or
\* without part of the file written; the rate and volume it sets from the
\* emotion act on the clip only through the length read back in
\* TtsRewriteAudio
TtsSynthesize ==
    /\ tpc = "synth"
    /\ \/ /\ TtsFail
          /\ UNCHANGED <<calls, wavFile>>
       \/ /\ calls' = [calls EXCEPT !.synth = @ + 1]
          /\ wavFile' \in {"raw", wavFile}
          /\ tpc' = "audio" /\ UNCHANGED texit
       \/ /\ calls' = [calls EXCEPT !.synth = @ + 1]
          /\ TtsFail
          /\ wavFile' \in {wavFile, "partial"}
    /\ UNCHANGED <<inputs, corpus, ttsArgs, scriptFile, jsonFile, llmVars, locals>>

\* sf.read, which raises when there is no audio file or it cannot be read;
\* sf.write as PCM_16, which may raise with the file opened or not;
\* duration = len(audio) / sr; print(...), which raises when stdout cannot
\* be written
TtsRewriteAudio ==
    /\ tpc = "audio"
    /\ \/ /\ TtsFail
          /\ UNCHANGED <<wavFile, duration>>
       \/ /\ wavFile # "absent"
          /\ TtsFail
          /\ wavFile' \in {wavFile, "partial"}
          /\ UNCHANGED duration
       \/ /\ wavFile # "absent"
          /\ \E sr \in SampleRates : \E frames \in AudioLengths(sr) :
                duration' = TrueDiv(frames, sr)
          /\ wavFile' = "pcm16"
          /\ \/ tpc' = "phonemize" /\ UNCHANGED texit
             \/ TtsFail
    /\ UNCHANGED <<inputs, corpus, ttsArgs, scriptFile, jsonFile, calls, llmVars,
                   text, emotion, words, phones, shapes, slots, i>>

\* text_to_arpabet: cmu = get_cmu(), which raises LookupError when the
\* corpus is missing; phones = []; the loop starts
TextToArpabetBegin ==
    /\ tpc = "phonemize"
    /\ IF corpus
       THEN /\ words' = split(text)
            /\ phones' = <<>>
            /\ tpc' = "words" /\ UNCHANGED texit
       ELSE /\ TtsFail
            /\ UNCHANGED <<words, phones>>
    /\ UNCHANGED <<inputs, corpus, ttsArgs, files, calls, llmVars,
                   text, emotion, duration, shapes, slots, i>>

\* text_to_arpabet: one pass of the loop over text.split()
TextToArpabetWord ==
    /\ tpc = "words" /\ words # <<>>
    /\ phones' = phones \o word_phones(cmudict, Head(words))
    /\ words' = Tail(words)
    /\ UNCHANGED <<inputs, corpus, ttsArgs, files, calls, llmVars, tpc, texit,
                   text, emotion, duration, shapes, slots, i>>

\* text_to_arpabet returns; shapes = phones_to_shapes(phones); slots = []
PhonesToShapes ==
    /\ tpc = "words" /\ words = <<>>
    /\ shapes' = phones_to_shapes(phones)
    /\ slots' = <<>> /\ i' = 0
    /\ tpc' = "timeline"
    /\ UNCHANGED <<inputs, corpus, ttsArgs, files, calls, llmVars, texit,
                   text, emotion, duration, words, phones>>

\* one pass of: for i, sh in enumerate(shapes)
TimelineStep ==
    /\ tpc = "timeline" /\ i < Len(shapes)
    /\ slots' = Append(slots, Slot(i, shapes[i + 1], Len(shapes), duration))
    /\ i' = i + 1
    /\ UNCHANGED <<inputs, corpus, ttsArgs, files, calls, llmVars, tpc, texit,
                   text, emotion, duration, words, phones, shapes>>

\* the record that lines 127-133 write
WrittenRecord ==
    [state |-> "written", doc |-> BuildAlign(OutWav, slots, emotion)]

\* the loop is over: align is built, out_json.write_text(...) writes it,
\* print(...) and the flush of stdout at exit succeed, main returns
WriteAlignmentDone ==
    /\ tpc = "timeline" /\ i = Len(shapes)
    /\ jsonFile' = WrittenRecord
    /\ tpc' = "exit" /\ texit' = 0
    /\ UNCHANGED <<inputs, corpus, ttsArgs, scriptFile, wavFile, calls, llmVars,
                   locals>>

\* the loop is over: align is built, and out_json.write_text(...) raises
\* before the file is opened (it is left as it was) or with the file opened
\* and truncated, or it writes the record and print(...) or the flush of
\* stdout at exit fails because stdout cannot be written
WriteAlignmentFault ==
    /\ tpc = "timeline" /\ i = Len(shapes)
    /\ jsonFile' \in {jsonFile, PartialJson, WrittenRecord}
    /\ TtsFail
    /\ UNCHANGED <<inputs, corpus, ttsArgs, scriptFile, wavFile, calls, llmVars,
                   locals>>

\* lines 127-134 and the exit of the interpreter
WriteAlignment == WriteAlignmentDone \/ WriteAlignmentFault

----------------------------------------------------------------------------
(* llm_tts_pipeline.py.                                                    *)

LlmFail ==
    /\ lpc' = "exit" /\ lexit' = 1

\* the module body: the imports and client = make_client(), which raises
\* when no API key is found
LlmMakeClient ==
    /\ lpc = "import"
    /\ \/ lpc' = "start" /\ UNCHANGED lexit
       \/ LlmFail
    /\ UNCHANGED <<inputs, corpus, ttsArgs, files, calls, reply, tpc, texit, locals>>

\* main: the argument check, the existence check, the read of the prompt
\* (which may raise) and its emptiness check
LlmReadPrompt ==
    /\ lpc = "start"
    /\ \/ /\ llmArgc # 4 \/ ~scriptFile.exists \/ strip(read_text(scriptFile)) = <<>>
          /\ LlmFail
       \/ /\ llmArgc = 4 /\ scriptFile.exists
          /\ LlmFail
       \/ /\ llmArgc = 4 /\ scriptFile.exists /\ strip(read_text(scriptFile)) # <<>>
          /\ lpc' = "query" /\ UNCHANGED lexit
    /\ UNCHANGED <<inputs, corpus, ttsArgs, files, calls, reply, tpc, texit, locals>>

\* print(...), which raises when stdout cannot be written;
\* get_reply_and_emotion(prompt): the request or the parse of the answer
\* fails, or the text of the reply is stripped and its emotion checked;
\* print(...) again
LlmQuery ==
    /\ lpc = "query"
    /\ \/ /\ LlmFail
          /\ UNCHANGED reply
       \/ \E t \in Texts, e \in EmotionInputs :
            /\ reply' = [text |-> strip(t), emotion |-> checked_emotion(e)]
            /\ \/ lpc' = "spawn" /\ UNCHANGED lexit
               \/ LlmFail
    /\ UNCHANGED <<inputs, corpus, ttsArgs, files, calls, tpc, texit, locals>>

\* the script files script_path.write_text(t) can leave when it raises: the
\* file as it was, or opened and holding the first characters of t
FailedWrites(file, t) ==
    {file} \cup {[exists |-> TRUE, text |-> SubSeq(t, 1, n)] : n \in 0..(Len(t) - 1)}

\* script_path.write_text(reply_text), which may raise; print(...), which
\* raises when stdout cannot be written; subprocess.run(cmd, check=True),
\* which starts tts_pipeline.py <script_txt> <out_wav> <out_json> <emotion>,
\* or raises because the interpreter cannot be started
LlmSpawn ==
    /\ lpc = "spawn"
    /\ \/ /\ scriptFile' \in FailedWrites(scriptFile, reply.text)
          /\ LlmFail
          /\ UNCHANGED <<ttsArgs, calls, tpc>>
       \/ /\ scriptFile' = [exists |-> TRUE, text |-> reply.text]
          /\ LlmFail
          /\ UNCHANGED <<ttsArgs, calls, tpc>>
       \/ /\ scriptFile' = [exists |-> TRUE, text |-> reply.text]
          /\ calls' = [calls EXCEPT !.spawn = @ + 1]
          /\ LlmFail
          /\ UNCHANGED <<ttsArgs, tpc>>
       \/ /\ scriptFile' = [exists |-> TRUE, text |-> reply.text]
          /\ ttsArgs' = [argc |-> 5, emotion |-> reply.emotion]
          /\ calls' = [calls EXCEPT !.spawn = @ + 1]
          /\ tpc' = "import"
          /\ lpc' = "wait" /\ UNCHANGED lexit
    /\ UNCHANGED <<inputs, corpus, wavFile, jsonFile, reply, texit, locals>>

\* subprocess.run returns when tts_pipeline.py has exited: check=True raises
\* on a non-zero code; otherwise main returns and stdout is flushed at exit,
\* which ends the run with a non-zero code when stdout cannot be written
LlmWait ==
    /\ lpc = "wait" /\ tpc = "exit"
    /\ lpc' = "exit"
    /\ lexit' \in IF check_fails(texit) THEN {1} ELSE {0, 1}
    /\ UNCHANGED <<inputs, corpus, ttsArgs, files, calls, reply, tpc, texit, locals>>

----------------------------------------------------------------------------

Next ==
    \/ TtsImport
    \/ TtsReadScript
    \/ TtsSynthesize
    \/ TtsRewriteAudio
    \/ TextToArpabetBegin
    \/ TextToArpabetWord
    \/ PhonesToShapes
    \/ TimelineStep
    \/ WriteAlignment
    \/ LlmMakeClient
    \/ LlmReadPrompt
    \/ LlmQuery
    \/ LlmSpawn
    \/ LlmWait

Spec == Init /\ [][Next]_vars

----------------------------------------------------------------------------
(* The viseme mapper on its own: the run stands at the return of           *)
(* text_to_arpabet, for the one-word utterance "x" and a dictionary that   *)
(* pronounces X as an arbitrary symbol sequence.                           *)

Arpabet ==
    { <<"A","A">>, <<"A","E">>, <<"A","H">>, <<"A","O">>, <<"A","W">>, <<"A","Y">>,
      <<"B">>, <<"C","H">>, <<"D">>, <<"D","H">>, <<"E","H">>, <<"E","R">>,
      <<"E","Y">>, <<"F">>, <<"G">>, <<"H","H">>, <<"I","H">>, <<"I","Y">>,
      <<"J","H">>, <<"K">>, <<"L">>, <<"M">>, <<"N">>, <<"N","G">>, <<"O","W">>,
      <<"O","Y">>, <<"P">>, <<"R">>, <<"S">>, <<"S","H">>, <<"T">>, <<"T","H">>,
      <<"U","H">>, <<"U","W">>, <<"V">>, <<"W">>, <<"Y">>, <<"Z">>, <<"Z","H">> }

FallbackLetters == { <<UpperLetters[k]>> : k \in 1..Len(UpperLetters) }

OtherSymbols ==
    { <<"I","X">>, <<"'">>, <<>>, <<"a","h">>, <<"X","Y","Z">>, <<"E","e">>,
      <<"U+017F","h">>, <<"U+00DF">>, <<"U+4E2D">> }

Symbols == Arpabet \cup FallbackLetters \cup SHAPES \cup OtherSymbols

PhoneSeqs == UNION { [1..n -> Symbols] : n \in 0..MaxPhones }

InitMapper ==
    /\ entry = "tts" /\ llmArgc = 0 /\ lpc = "idle" /\ lexit = -1
    /\ reply = NoReply
    /\ ttsArgs = [argc |-> 5, emotion |-> "neutral"]
    /\ scriptFile = [exists |-> TRUE, text |-> <<"x">>]
    /\ wavFile = "pcm16"
    /\ jsonFile = [state |-> "absent", doc |-> NoDoc]
    /\ calls = [synth |-> 1, spawn |-> 0]
    /\ tpc = "words" /\ texit = -1
    /\ text = <<"x">> /\ emotion = "neutral"
    /\ \E sr \in SampleRates : duration = TrueDiv(sr, sr)
    /\ words = <<>>
    /\ phones \in PhoneSeqs
    /\ cmudict = (<<"X">> :> <<phones>>)
    /\ corpus = TRUE
    /\ shapes = <<>> /\ slots = <<>> /\ i = 0

NextMapper ==
    \/ PhonesToShapes
    \/ TimelineStep
    \/ WriteAlignment

SpecMapper == InitMapper /\ [][NextMapper]_vars

----------------------------------------------------------------------------
(* Properties.                                                             *)

\* the timeline loop has run to its end
LoopOver == tpc \in {"timeline", "exit"} /\ wavFile = "pcm16" /\ i = Len(shapes)

\* the run got past the audio step and has exited
RanToEnd == tpc = "exit" /\ wavFile = "pcm16"

\* C1: for N > 0 shapes and duration > 0 the timeline loop yields exactly N
\* intervals, in the order of the shapes, the first starting at 0, the last
\* ending at duration, each ending where the next starts, with strictly
\* increasing start times.
C1_TimelinePartition ==
    (LoopOver /\ Len(shapes) > 0 /\ Less(Zero, duration)) =>
        LET N == Len(shapes) IN
        /\ Len(slots) = N
        /\ \A k \in 1..N : slots[k].shape = shapes[k]
        /\ slots[1].start = Zero
        /\ slots[N].end = duration
        /\ \A k \in 1..(N - 1) :
              /\ slots[k].end = slots[k + 1].start
              /\ Less(slots[k].start, slots[k + 1].start)

C1_Witness ==
    /\ tpc = "exit" /\ texit = 0
    /\ Len(slots) >= 3
    /\ Less(Zero, duration)
    /\ jsonFile.doc.phonemes = slots

\* the run stands after the timeline loop of an utterance that has phonemes
\* but yields no shape
ZeroShapes ==
    /\ tpc = "timeline" /\ wavFile = "pcm16"
    /\ Len(shapes) = 0

\* C2: when the utterance yields no shape (every phoneme maps to no shape)
\* the shape list is empty, the loop body, the only place that divides by
\* N, cannot be entered and the interval list stays empty; the run can
\* still complete, and unless the file system or stdout fails under the
\* last step it does complete, with exit code 0 and an alignment record
\* whose phonemes list is empty.
C2_ZeroShapes ==
    /\ []( ( /\ tpc = "timeline" /\ wavFile = "pcm16"
             /\ \A k \in 1..Len(phones) : arpabet_to_shape(phones[k]) = NoShape )
           => shapes = <<>> )
    /\ []( ZeroShapes =>
             /\ slots = <<>> /\ i = 0
             /\ ~ENABLED TimelineStep
             /\ ENABLED WriteAlignmentDone )
    /\ [][(ZeroShapes /\ ~WriteAlignmentFault) =>
             /\ tpc' = "exit" /\ texit' = 0
             /\ slots' = <<>>
             /\ jsonFile'.state = "written"
             /\ jsonFile'.doc.phonemes = <<>>]_vars

C2_Witness ==
    /\ tpc = "exit" /\ texit = 0
    /\ text # <<>> /\ phones # <<>> /\ shapes = <<>>
    /\ jsonFile.state = "written" /\ jsonFile.doc.phonemes = <<>>

\* C3: arpabet_to_shape returns a member of SHAPES or the empty "no shape"
\* value for every symbol, so every shape returned by phones_to_shapes, every
\* interval of the loop and every interval written is a member of SHAPES.
C3_ShapesClosed ==
    /\ \A k \in 1..Len(phones) : arpabet_to_shape(phones[k]) \in SHAPES \cup {NoShape}
    /\ \A k \in 1..Len(shapes) : shapes[k] \in SHAPES
    /\ \A k \in 1..Len(slots) : slots[k].shape \in SHAPES
    /\ \A k \in 1..Len(jsonFile.doc.phonemes) : jsonFile.doc.phonemes[k].shape \in SHAPES

C3_Witness ==
    /\ jsonFile.state = "written"
    /\ Len(phones) = 2
    /\ Len(jsonFile.doc.phonemes) = 1
    /\ \E k \in 1..2 : phones[k] \notin Arpabet /\ arpabet_to_shape(phones[k]) = NoShape

\* C4 as stated: every symbol text_to_arpabet returns is non-empty and
\* upper case, the symbols of the per-character fallback included.
C4_SymbolsUppercase ==
    \A k \in 1..Len(phones) : phones[k] # <<>> /\ isupper(phones[k])

\* the "Hello world" scenario: the dictionary with HELLO and WORLD, a clip of
\* one second, the run over
HelloWorldRun ==
    /\ text = HelloWorld
    /\ cmudict = LexUpper
    /\ duration = TrueDiv(1, 1)
    /\ tpc = "exit" /\ texit = 0

HelloWorldPhones ==
    << <<"H","H">>, <<"A","H">>, <<"L">>, <<"O","W">>,
       <<"W">>, <<"E","R">>, <<"L">>, <<"D">> >>

\* C5 as stated: "Hello world" gives [HH, AH, L, OW, W, ER, L, D] and 8
\* intervals, one per phoneme, of 0.125 s each.
C5_EightIntervals ==
    HelloWorldRun =>
        /\ phones = HelloWorldPhones
        /\ Len(slots) = 8
        /\ \A k \in 1..Len(slots) : Minus(slots[k].end, slots[k].start) = TrueDiv(1, 8)

\* C5 amended: "Hello world" gives [HH, AH, L, OW, W, ER, L, D]; HH, L and W
\* have no shape and are dropped, so the shapes are [AA, OH, rr, dd] and the
\* record holds 4 intervals, one per shape, of 0.25 s each.
C5_FourIntervals ==
    HelloWorldRun =>
        /\ phones = HelloWorldPhones
        /\ shapes = << <<"A","A">>, <<"O","H">>, <<"r","r">>, <<"d","d">> >>
        /\ Len(slots) = 4
        /\ \A k \in 1..Len(slots) :
              /\ slots[k].shape = shapes[k]
              /\ Minus(slots[k].end, slots[k].start) = TrueDiv(1, 4)
        /\ jsonFile.doc.phonemes = slots

C5_Witness ==
    /\ HelloWorldRun
    /\ jsonFile.state = "written"
    /\ Len(jsonFile.doc.phonemes) = 4

\* a symbol that none of the phoneme-class rules matches
InNoClass(sym) == class_rules(upper(sym), <<"none">>) = <<"none">>

\* C6 as stated: arpabet_to_shape returns every member of SHAPES unchanged,
\* and returns "no shape" for a symbol in no phoneme class and not in SHAPES,
\* which phones_to_shapes drops.
C6_ShapesPassThrough ==
    (tpc \in {"timeline", "exit"} /\ Len(phones) = 1) =>
        /\ phones[1] \in SHAPES => shapes = phones
        /\ (InNoClass(phones[1]) /\ phones[1] \notin SHAPES) => shapes = <<>>

\* C7 as stated: every alignment record written carries one of the seven
\* allowed emotions, whichever program the run entered through.
C7_EmotionAllowed ==
    jsonFile.state = "written" => jsonFile.doc.emotion \in Range(ALLOWED_EMOTIONS)

\* the script file exists and is blank after trimming
BlankScript == scriptFile.exists /\ strip(scriptFile.text) = <<>>

\* C8: with a script file that is blank after trimming (the prompt, the text
\* given to tts_pipeline, or the reply that overwrote it) synthesis is never
\* called, neither the audio nor the alignment file is created, and each
\* program that has exited did so with code 1.
C8_BlankScriptWritesNothing ==
    BlankScript =>
        /\ tpc \in {"idle", "import", "start", "exit"}
        /\ calls.synth = 0
        /\ wavFile \in {"absent", "old"}
        /\ jsonFile.state \in {"absent", "old"}
        /\ tpc = "exit" => texit = 1
        /\ lpc = "exit" => lexit = 1

C8_Witness ==
    /\ BlankScript
    /\ entry = "llm" /\ calls.spawn = 1
    /\ tpc = "exit" /\ texit = 1
    /\ lpc = "exit" /\ lexit = 1

\* C9 as stated: the alignment file is written only after synthesis and the
\* rewrite of the audio as 16-bit PCM; when synthesis or the subprocess
\* fails, the program exits non-zero, nothing is tried again and no
\* alignment file, complete or partial, has been written in that run.
C9_AlignmentAfterAudio ==
    /\ jsonFile.state \in {"written", "partial"} =>
          wavFile = "pcm16" /\ calls.synth = 1 /\ tpc = "exit"
    /\ (tpc = "exit" /\ calls.synth = 1 /\ wavFile # "pcm16") => texit # 0
    /\ calls.synth <= 1 /\ calls.spawn <= 1
    /\ (lpc = "exit" /\ calls.spawn = 1 /\ texit # 0) => lexit # 0
    /\ (tpc = "exit" /\ texit # 0) => jsonFile.state \notin {"written", "partial"}

\* one pass of the word loop over a word that is not in the dictionary
C10_FallbackStep ==
    LET word == NormalizeWord(Head(words)) IN
    (tpc = "words" /\ words # <<>> /\ word # <<>> /\ word \notin DOMAIN cmudict) =>
        /\ phones' = phones \o [k \in 1..Len(word) |-> <<word[k]>>]
        /\ Len(phones') > Len(phones)
        /\ words' = Tail(words)

\* no pass of the word loop alters what is already in phones
C10_OrderKept ==
    tpc = "words" => SubSeq(phones', 1, Len(phones)) = phones

\* text_to_arpabet has the dictionary and is in, or past, its word loop
Phonemized == tpc \in {"words", "timeline"}

\* C10: a normalized word that is not in the dictionary appends exactly one
\* symbol per character, in order, after the symbols of the words before it;
\* whatever those symbols map to, the run can always go on from the word
\* loop, and unless the file system or stdout fails under the last step it
\* makes no failing step and ends with exit code 0 and a written record.
C10_LetterFallback ==
    /\ [][C10_FallbackStep]_vars
    /\ [][C10_OrderKept]_vars
    /\ []( Phonemized =>
             ENABLED ( \/ TextToArpabetWord \/ PhonesToShapes
                       \/ TimelineStep \/ WriteAlignmentDone ) )
    /\ [][(Phonemized /\ ~WriteAlignmentFault) =>
             \/ tpc' \in {"words", "timeline"} /\ texit' = -1
             \/ /\ tpc' = "exit" /\ texit' = 0
                /\ jsonFile' = WrittenRecord]_vars

C10_Witness ==
    /\ RanToEnd /\ texit = 0
    /\ text = <<"Z","z","y","z","x">>
    /\ phones = << <<"Z">>, <<"Z">>, <<"Y">>, <<"Z">>, <<"X">> >>
    /\ Len(jsonFile.doc.phonemes) = 3

====
